---- MODULE Spec2Model ----
(***************************************************************************)
(* The dispatch engine of src/app/scheduler.py: SmartElevatorController    *)
(* and its four scheduling algorithms.                                     *)
(*                                                                         *)
(* The simulator (elevator_saga) owns the cars.  The controller only reads *)
(* a car through its proxy while a handler runs, so a car's live state     *)
(* (current_floor, target_floor_direction, len(passengers)) is an input of *)
(* each event, drawn from CarStates.  Costs and scores are floats in the   *)
(* source; here they are the same rationals scaled to integers.            *)
(***************************************************************************)
EXTENDS Integers, Sequences, FiniteSets

(* ------------------------------ bounds -------------------------------- *)
MaxCars == 2
NumFloors == 3
Capacity == 2
MaxPassengers == 2
MaxHistory == 1
MaxTick == 2
MaxLiveHistory == 16
TallFloors == 7

(* ------------------------- program constants -------------------------- *)
DefaultMaxFloor == 10
DefaultNumElevators == 2

AlgorithmNames == {"distance_optimized", "load_balanced", "direction_aware", "adaptive"}
UP == "up"
DOWN == "down"
STOPPED == "stopped"
Direction == {UP, DOWN, STOPPED}
CallDirections == {UP, DOWN}

InitialWeights == [distance |-> 4, load_balance |-> 3, direction |-> 3]
HighLoadWeights == [distance |-> 3, load_balance |-> 5, direction |-> 2]
LongDistanceWeights == [distance |-> 6, load_balance |-> 2, direction |-> 2]

Inf == -1
NoElevator == -1
NoFloor == -1
NoCar == [current_floor |-> -1, target_floor_direction |-> "none", passengers |-> -1]

VARIABLES
    algorithm_name,       \* SmartElevatorController.algorithm_name
    max_floor,            \* SchedulingAlgorithm.max_floor
    num_elevators,        \* SchedulingAlgorithm.num_elevators
    metrics,              \* SchedulingAlgorithm.metrics
    strategy_weights,     \* AdaptiveAlgorithm.strategy_weights
    request_history,      \* AdaptiveAlgorithm.request_history, as the floors in append order
    elevators,            \* SmartElevatorController.elevators, as the ids in roster order
    floors,               \* len(SmartElevatorController.floors)
    elevator_targets,     \* SmartElevatorController.elevator_targets
    pending_requests,     \* SmartElevatorController.pending_requests
    elevator_wait_times,  \* SmartElevatorController.elevator_wait_times
    all_passengers,       \* SmartElevatorController.all_passengers, as passenger ids
    performance_stats,    \* SmartElevatorController.performance_stats
    current_tick,         \* ElevatorController.current_tick
    waiting,              \* the host's passengers that called and have not boarded
    error,                \* the exception that ended the run, or "none"
    ev,                   \* the last event delivered and what the handler did in it
    probe,                \* a direct call of a dispatch helper: its arguments and result
    host                  \* the host's cars and passengers, where the host is modelled

vars == <<algorithm_name, max_floor, num_elevators, metrics, strategy_weights,
          request_history, elevators, floors, elevator_targets, pending_requests,
          elevator_wait_times, all_passengers, performance_stats, current_tick,
          waiting, error, ev, probe, host>>

(* ------------------------------ helpers ------------------------------- *)
Abs(x) == IF x < 0 THEN -x ELSE x

Max(a, b) == IF a > b THEN a ELSE b

Range(s) == {s[i] : i \in 1..Len(s)}

Contains(s, x) == \E i \in 1..Len(s) : s[i] = x

RECURSIVE Factorial(_)
Factorial(n) == IF n <= 1 THEN 1 ELSE n * Factorial(n - 1)

\* deque.remove(x): removes the first occurrence of x
RemoveFirst(s, x) ==
    LET i == CHOOSE k \in 1..Len(s) : s[k] = x /\ \A j \in 1..(k - 1) : s[j] # x
    IN  SubSeq(s, 1, i - 1) \o SubSeq(s, i + 1, Len(s))

\* min(seq, key): the position of the first element whose key is minimal,
\* keys[i] being the key of the i-th element
FirstMin(keys) ==
    CHOOSE k \in 1..Len(keys) :
        /\ \A j \in 1..Len(keys) : keys[k] <= keys[j]
        /\ \A j \in 1..(k - 1) : keys[j] > keys[k]

\* max(seq, key): the position of the first element whose key is maximal
FirstMax(keys) ==
    CHOOSE k \in 1..Len(keys) :
        /\ \A j \in 1..Len(keys) : keys[k] >= keys[j]
        /\ \A j \in 1..(k - 1) : keys[j] < keys[k]

\* The floor of targets nearest to the car: min(targets, key=distance)
NearestTarget(e, targets) ==
    targets[FirstMin([i \in 1..Len(targets) |-> Abs(e.current_floor - targets[i])])]

(* --------------------------- the host's cars -------------------------- *)
\* A car as the proxy shows it during one event.  A car cannot be heading
\* up at the top floor or down at the bottom floor.
CarStates(nf) ==
    {c \in [current_floor : 0..(nf - 1), target_floor_direction : Direction,
            passengers : 0..Capacity] :
        /\ c.target_floor_direction = UP => c.current_floor < nf - 1
        /\ c.target_floor_direction = DOWN => c.current_floor > 0}

(* ----------------------------- cost policy ---------------------------- *)
\* Every cost below is the source's float multiplied by CostScale.
CostScale == 10 * Capacity

Distance(e, target_floor) == Abs(e.current_floor - target_floor)

DistanceOptimizedCost(e, target_floor, direction) ==
    LET distance == Distance(e, target_floor)
        distance_cost == 20 * Capacity * distance
        direction_penalty ==
            IF e.target_floor_direction # STOPPED /\ e.target_floor_direction # direction
            THEN 5 * Capacity * distance ELSE 0
        load_cost == 3 * e.passengers * distance
        idle_bonus ==
            IF e.passengers = 0 /\ distance > 2 THEN -(2 * Capacity * distance) ELSE 0
    IN  distance_cost + direction_penalty + load_cost + idle_bonus

\* total_load sums over [elevator] alone; load_factor < avg_load * 0.8 is
\* passengers/capacity < (passengers/num_elevators) * 0.8
LoadBalancedCost(e, target_floor, direction, nElev) ==
    LET distance == Distance(e, target_floor)
        distance_cost == 15 * Capacity * distance
        total_load == e.passengers
        light == 10 * e.passengers * Max(nElev, 1) < 8 * total_load * Max(Capacity, 1)
        load_cost == IF light THEN 7 * e.passengers * distance
                     ELSE 10 * e.passengers * distance
    IN  distance_cost + load_cost

DirectionAwareCost(e, target_floor, direction) ==
    LET distance == Distance(e, target_floor)
        distance_cost == 18 * Capacity * distance
        direction_bonus ==
            IF e.target_floor_direction = direction THEN -(3 * Capacity * distance)
            ELSE IF e.target_floor_direction # STOPPED THEN 6 * Capacity * distance
            ELSE 0
        load_cost == 2 * Capacity * e.passengers * distance
    IN  distance_cost + direction_bonus + load_cost

\* Variant of the cost below whose distance term is scaled by the current
\* strategy_weights
AdaptiveCostWeighted(e, target_floor, direction) ==
    LET distance == Distance(e, target_floor)
        distance_cost == 5 * strategy_weights.distance * Capacity * distance
        direction_cost ==
            IF e.target_floor_direction # STOPPED /\ e.target_floor_direction # direction
            THEN 4 * Capacity * distance ELSE 0
        load_cost == 2 * Capacity * e.passengers * distance
    IN  distance_cost + direction_cost + load_cost

AdaptiveCost(e, target_floor, direction) ==
    LET distance == Distance(e, target_floor)
        distance_cost == 20 * Capacity * distance
        direction_cost ==
            IF e.target_floor_direction # STOPPED /\ e.target_floor_direction # direction
            THEN 4 * Capacity * distance ELSE 0
        load_cost == 2 * Capacity * e.passengers * distance
    IN  distance_cost + direction_cost + load_cost

\* The weights AdaptiveAlgorithm.calculate_cost leaves behind.
AdaptiveReweigh(weights, e, target_floor, maxf) ==
    IF 10 * e.passengers > 8 * Capacity THEN HighLoadWeights
    ELSE IF 10 * Distance(e, target_floor) > 6 * maxf THEN LongDistanceWeights
    ELSE weights

CalculateCost(alg, e, target_floor, direction, nElev) ==
    CASE alg = "distance_optimized" -> DistanceOptimizedCost(e, target_floor, direction)
      [] alg = "load_balanced" -> LoadBalancedCost(e, target_floor, direction, nElev)
      [] alg = "adaptive" -> AdaptiveCost(e, target_floor, direction)
      [] OTHER -> DirectionAwareCost(e, target_floor, direction)

\* The policy state after one calculate_cost call.
CostWeights(alg, weights, e, target_floor, maxf) ==
    IF alg = "adaptive" THEN AdaptiveReweigh(weights, e, target_floor, maxf) ELSE weights

(* --------------------------- idle-target rule ------------------------- *)
TargetDirection(e, target) == IF target > e.current_floor THEN UP ELSE DOWN

SelectLoadBalancedTarget(e, targets, nElev) ==
    LET Cost(t) == LoadBalancedCost(e, t, TargetDirection(e, t), nElev)
    IN  targets[FirstMin([i \in 1..Len(targets) |-> Cost(targets[i])])]

SelectDirectionAwareTarget(e, targets) ==
    LET current_direction == e.target_floor_direction
        Same(t) == \/ t > e.current_floor /\ current_direction = UP
                   \/ t < e.current_floor /\ current_direction = DOWN
        same_direction_targets == SelectSeq(targets, Same)
    IN  IF same_direction_targets # <<>> THEN NearestTarget(e, same_direction_targets)
        ELSE NearestTarget(e, targets)

\* 1/(1 + distance) is a whole number of ScoreUnit-ths for every distance
\* between two floors
ScoreUnit == Factorial(Max(NumFloors, TallFloors))

\* score * 100 * Capacity * ScoreUnit: weights and direction scores are tenths
AdaptiveScore(e, target, weights) ==
    LET distance == Abs(e.current_floor - target)
        distance_score == (10 * Capacity * ScoreUnit) \div (1 + distance)
        load_score == 10 * (Capacity - e.passengers) * ScoreUnit
        direction == TargetDirection(e, target)
        direction_score ==
            IF e.target_floor_direction = direction THEN 10
            ELSE IF e.target_floor_direction = STOPPED THEN 8
            ELSE 3
    IN  distance_score * weights.distance
        + load_score * weights.load_balance
        + direction_score * weights.direction * Capacity * ScoreUnit

SelectAdaptiveTarget(e, targets, weights) ==
    targets[FirstMax([i \in 1..Len(targets) |-> AdaptiveScore(e, targets[i], weights)])]

\* len(requests) of request_history[floor]
HistoryCount(history, floor) == Cardinality({i \in 1..Len(history) : history[i] = floor})

\* max(floor_requests.items(), key=count)[0]: dict order is first-insertion order
GetOptimalWaitingFloor(history, maxf) ==
    IF history # <<>>
    THEN history[FirstMax([i \in 1..Len(history) |-> HistoryCount(history, history[i])])]
    ELSE maxf \div 2

\* handle_idle_elevator: the floors passed to elevator.go_to_floor, in order.
HandleIdleElevator(alg, e, targets, weights, history, maxf, nElev) ==
    CASE alg = "distance_optimized" ->
               IF targets # <<>> THEN <<NearestTarget(e, targets)>>
               ELSE IF Abs(e.current_floor - (maxf \div 2)) > 1 THEN <<maxf \div 2>>
               ELSE <<>>
          [] alg = "load_balanced" ->
               IF targets # <<>> THEN <<SelectLoadBalancedTarget(e, targets, nElev)>>
               ELSE IF e.passengers < 3 THEN <<maxf \div 3>>
               ELSE <<>>
          [] alg = "adaptive" ->
               IF targets # <<>> THEN <<SelectAdaptiveTarget(e, targets, weights)>>
               ELSE IF Abs(e.current_floor - GetOptimalWaitingFloor(history, maxf)) > 1
                    THEN <<GetOptimalWaitingFloor(history, maxf)>>
               ELSE <<>>
          [] OTHER ->
               \* direction_history is never written: the park rule never commands
               IF targets # <<>> THEN <<SelectDirectionAwareTarget(e, targets)>>
               ELSE <<>>

\* request_history after handle_idle_elevator
HandleIdleHistory(alg, e, targets, history) ==
    IF alg = "adaptive" /\ targets # <<>> THEN Append(history, e.current_floor)
    ELSE history

(* -------------------------- dispatch helpers -------------------------- *)
\* Variants of _can_elevator_pickup that the properties below must tell apart
\* from it: the floor comparison made strict, ...
CanElevatorPickupStrict(e, floor, direction) ==
    IF e.passengers >= Capacity THEN FALSE
    ELSE IF e.target_floor_direction = STOPPED THEN TRUE
    ELSE IF e.target_floor_direction = direction
         THEN IF direction = UP /\ e.current_floor < floor THEN TRUE
              ELSE IF direction = DOWN /\ e.current_floor > floor THEN TRUE
              ELSE FALSE
    ELSE FALSE

\* ... the floor comparison dropped, ...
CanElevatorPickupBehind(e, floor, direction) ==
    IF e.passengers >= Capacity THEN FALSE
    ELSE IF e.target_floor_direction = STOPPED THEN TRUE
    ELSE e.target_floor_direction = direction

\* ... and the capacity test off by one.
CanElevatorPickupOverfull(e, floor, direction) ==
    IF e.passengers > Capacity THEN FALSE
    ELSE IF e.target_floor_direction = STOPPED THEN TRUE
    ELSE IF e.target_floor_direction = direction
         THEN IF direction = UP /\ e.current_floor <= floor THEN TRUE
              ELSE IF direction = DOWN /\ e.current_floor >= floor THEN TRUE
              ELSE FALSE
    ELSE FALSE

\* A variant without the direction test: any car with room qualifies.
CanElevatorPickupAnyDirection(e, floor, direction) == e.passengers < Capacity

CanElevatorPickup(e, floor, direction) ==
    IF e.passengers >= Capacity THEN FALSE
    ELSE IF e.target_floor_direction = STOPPED THEN TRUE
    ELSE IF e.target_floor_direction = direction
         THEN IF direction = UP /\ e.current_floor <= floor THEN TRUE
              ELSE IF direction = DOWN /\ e.current_floor >= floor THEN TRUE
              ELSE FALSE
    ELSE FALSE

\* Variant of the comparison below: cost <= min_cost, the last minimum wins
CostAtMost(cost, min_cost) == min_cost = Inf \/ cost <= min_cost

\* cost < min_cost, with min_cost starting at float('inf')
CostBelow(cost, min_cost) == min_cost = Inf \/ cost < min_cost

\* One iteration of the loop of _assign_passenger_to_elevator over car id,
\* whose proxy reads e.  acc carries best_elevator, min_cost, the car state
\* read for best_elevator and the policy's strategy_weights.
AssignStep(acc, id, e, origin, direction, alg, nElev, maxf) ==
    LET cost == CalculateCost(alg, e, origin, direction, nElev)
        weights == CostWeights(alg, acc.weights, e, origin, maxf)
    IN  IF CanElevatorPickup(e, origin, direction) /\ CostBelow(cost, acc.min_cost)
        THEN [best_elevator |-> id, min_cost |-> cost, car |-> e, weights |-> weights]
        ELSE [acc EXCEPT !.weights = weights]

AssignStart(weights) ==
    [best_elevator |-> NoElevator, min_cost |-> Inf, car |-> NoCar, weights |-> weights]

\* _assign_passenger_to_elevator over the roster ids, car ids[i] reading reads[i]
RECURSIVE AssignPassengerToElevator(_, _, _, _, _, _, _, _)
AssignPassengerToElevator(ids, reads, origin, direction, alg, nElev, maxf, weights) ==
    IF ids = <<>> THEN AssignStart(weights)
    ELSE LET n == Len(ids)
             before == AssignPassengerToElevator(SubSeq(ids, 1, n - 1), reads, origin,
                                                 direction, alg, nElev, maxf, weights)
         IN  AssignStep(before, ids[n], reads[n], origin, direction, alg, nElev, maxf)

\* Every result of _assign_passenger_to_elevator as the cars' live states range
\* over CarStates(nf): the same loop, one car at a time.
RECURSIVE AssignOutcomes(_, _, _, _, _, _, _, _)
AssignOutcomes(ids, nf, origin, direction, alg, nElev, maxf, weights) ==
    IF ids = <<>> THEN {AssignStart(weights)}
    ELSE LET n == Len(ids)
             before == AssignOutcomes(SubSeq(ids, 1, n - 1), nf, origin, direction,
                                      alg, nElev, maxf, weights)
         IN  {AssignStep(acc, ids[n], e, origin, direction, alg, nElev, maxf) :
                 acc \in before, e \in CarStates(nf)}

\* Variant of _update_elevator_targets below: handle_idle_elevator is called
\* on an empty queue too
UpdateElevatorTargetsAlways(alg, e, targets, weights, history, maxf, nElev) ==
    HandleIdleElevator(alg, e, targets, weights, history, maxf, nElev)

\* _update_elevator_targets: the go_to_floor calls it makes for the car reading e
UpdateElevatorTargets(alg, e, targets, weights, history, maxf, nElev) ==
    IF targets = <<>> THEN <<>>
    ELSE HandleIdleElevator(alg, e, targets, weights, history, maxf, nElev)

\* request_history after _update_elevator_targets
UpdateHistory(alg, e, targets, history) ==
    IF targets = <<>> THEN history ELSE HandleIdleHistory(alg, e, targets, history)

\* deque.append(x) guarded by "x not in deque"
AppendIfAbsent(targets, x) == IF Contains(targets, x) THEN targets ELSE Append(targets, x)

\* Variant of the update below: the call is dropped
AddPendingLost(pending, direction, origin) == pending

\* pending_requests[direction].add(origin)
AddPending(pending, direction, origin) == [pending EXCEPT ![direction] = @ \cup {origin}]

\* Variant of the choice below: a floor farthest from the car
FarthestRequests(e, pending) ==
    {f \in pending : \A g \in pending : Abs(e.current_floor - f) >= Abs(e.current_floor - g)}

\* min(pending, key=distance): a set has no order the language fixes, so any
\* of the nearest floors may be the one returned
NearestRequests(e, pending) ==
    {f \in pending : \A g \in pending : Abs(e.current_floor - f) <= Abs(e.current_floor - g)}

NoClaim == [direction |-> "none", floor |-> NoFloor]

\* Variant of the scan below: DOWN is scanned before UP
PendingClaimsDownFirst(e, pending) ==
    LET Try(direction) ==
            IF pending[direction] = {} THEN {NoClaim}
            ELSE {IF CanElevatorPickup(e, f, direction)
                  THEN [direction |-> direction, floor |-> f] ELSE NoClaim :
                     f \in NearestRequests(e, pending[direction])}
    IN  (Try(DOWN) \ {NoClaim})
        \cup (IF NoClaim \in Try(DOWN) THEN Try(UP) ELSE {})

\* _process_pending_requests: the backlog entry the idle car claims, if any.
\* UP is scanned before DOWN and the scan stops at the first claim.
PendingClaims(e, pending) ==
    LET Try(direction) ==
            IF pending[direction] = {} THEN {NoClaim}
            ELSE {IF CanElevatorPickup(e, f, direction)
                  THEN [direction |-> direction, floor |-> f] ELSE NoClaim :
                     f \in NearestRequests(e, pending[direction])}
    IN  (Try(UP) \ {NoClaim})
        \cup (IF NoClaim \in Try(UP) THEN Try(DOWN) ELSE {})

\* initialize_elevator: the floor of the immediate go_to_floor
InitializeElevator(alg, elevator_id, maxf, nElev) ==
    CASE alg = "distance_optimized" ->
           IF nElev > 1 THEN (elevator_id * (maxf - 1)) \div (nElev - 1) ELSE 0
      [] alg = "load_balanced" -> (elevator_id * maxf) \div (nElev + 1)
      [] alg = "adaptive" ->
           \* request_history is empty when on_init runs: the default position
           (elevator_id * maxf) \div (nElev + 1)
      [] OTHER -> maxf \div 2

Event(kind, elevator, floor, direction, car, appended, commands) ==
    [kind |-> kind, elevator |-> elevator, floor |-> floor, direction |-> direction,
     car |-> car, appended |-> appended, commands |-> commands]

NoEvent == Event("none", NoElevator, NoFloor, "none", NoCar, FALSE, <<>>)

\* No car and no passenger of the host is modelled
NoHost == [cars |-> <<>>, people |-> <<>>]

NoProbe ==
    [op |-> "none", reads |-> <<>>, floor |-> NoFloor, direction |-> "none",
     targets |-> <<>>, asked |-> FALSE, fresh |-> FALSE, accept |-> FALSE,
     best_elevator |-> NoElevator, cost |-> Inf, commands |-> <<>>]

(* ------------------------------- Init --------------------------------- *)
\* The controller as __init__ and _create_algorithm leave it.
Constructed ==
    /\ algorithm_name \in AlgorithmNames
    /\ max_floor = DefaultMaxFloor
    /\ num_elevators = DefaultNumElevators
    /\ metrics = [i \in 0..(DefaultNumElevators - 1) |->
                     [total_wait_time |-> 0, passengers_served |-> 0]]
    /\ strategy_weights = InitialWeights
    /\ request_history = <<>>
    /\ elevators = <<>>
    /\ floors = 0
    /\ elevator_targets = <<>>
    /\ pending_requests = [d \in CallDirections |-> {}]
    /\ elevator_wait_times = <<>>
    /\ all_passengers = <<>>
    /\ performance_stats = [total_wait_time |-> 0, total_passengers |-> 0]
    /\ current_tick = 0
    /\ waiting = {}
    /\ error = "none"
    /\ ev = NoEvent
    /\ host = NoHost

Init == Constructed /\ probe = NoProbe

\* The host delivers one event at a time: a handler runs when the last one
\* has returned.
Ready == error = "none" /\ ev = NoEvent

Running == Ready /\ elevators # <<>>

RosterIds == Range(elevators)

FloorNumbers == 0..(floors - 1)

(* ------------------------------ handlers ------------------------------ *)
\* on_init(elevators, floors) for a roster of n cars, ids 0..n-1, and nf floors
OnInit(n, nf) ==
    /\ Ready
    /\ elevators = <<>>
    /\ elevators' = [i \in 1..n |-> i - 1]
    /\ floors' = nf
    /\ max_floor' = nf - 1
    /\ num_elevators' = n
    /\ elevator_targets' = [id \in 0..(n - 1) |-> <<>>]
    /\ elevator_wait_times' = [id \in 0..(n - 1) |-> <<>>]
    /\ ev' = Event("init", NoElevator, NoFloor, "none", NoCar, FALSE,
                   [i \in 1..n |-> <<i - 1, InitializeElevator(algorithm_name, i - 1, nf - 1, n)>>])
    /\ UNCHANGED <<algorithm_name, metrics, strategy_weights, request_history,
                   pending_requests, all_passengers, performance_stats, current_tick,
                   waiting, error, probe, host>>

\* request_history holds at most MaxHistory entries: an event that would
\* record more is not delivered.  Where the host is modelled the events are
\* the host's, and the log holds MaxLiveHistory entries.
HistoryFits(history) ==
    Len(history) <= (IF host = NoHost THEN MaxHistory ELSE MaxLiveHistory)

CalledHistoryFits(assigned, origin) ==
    IF assigned.best_elevator = NoElevator THEN TRUE
    ELSE IF Contains(elevator_targets[assigned.best_elevator], origin) THEN TRUE
    ELSE HistoryFits(UpdateHistory(algorithm_name, assigned.car,
                                   Append(elevator_targets[assigned.best_elevator], origin),
                                   request_history))

\* on_passenger_call(passenger, floor, direction): passenger p calls at floor
\* origin, bound for destination
OnCall(p, origin, destination) ==
    LET direction == IF destination > origin THEN UP ELSE DOWN
    IN  /\ Running
        /\ p = Len(all_passengers) + 1
        /\ origin # destination
        /\ all_passengers' = Append(all_passengers, p)
        /\ waiting' = waiting \cup {p}
        /\ elevator_wait_times' =
               [id \in DOMAIN elevator_wait_times |->
                   Append(elevator_wait_times[id], current_tick)]
        /\ \E assigned \in AssignOutcomes(elevators, floors, origin, direction,
                                          algorithm_name, num_elevators, max_floor,
                                          strategy_weights) :
              /\ strategy_weights' = assigned.weights
              /\ CalledHistoryFits(assigned, origin)
              /\ IF assigned.best_elevator # NoElevator
                 THEN LET id == assigned.best_elevator
                          absent == ~Contains(elevator_targets[id], origin)
                          targets == AppendIfAbsent(elevator_targets[id], origin)
                          commands ==
                              IF absent
                              THEN UpdateElevatorTargets(algorithm_name, assigned.car, targets,
                                       assigned.weights, request_history, max_floor,
                                       num_elevators)
                              ELSE <<>>
                      IN  /\ elevator_targets' = [elevator_targets EXCEPT ![id] = targets]
                          /\ request_history' =
                                 IF absent
                                 THEN UpdateHistory(algorithm_name, assigned.car, targets,
                                                    request_history)
                                 ELSE request_history
                          /\ pending_requests' = pending_requests
                          /\ ev' = Event("call", id, origin, direction, assigned.car, absent,
                                         [i \in 1..Len(commands) |-> <<id, commands[i]>>])
                 ELSE /\ pending_requests' = AddPending(pending_requests, direction, origin)
                      /\ UNCHANGED <<elevator_targets, request_history>>
                      /\ ev' = Event("call", NoElevator, origin, direction, NoCar, FALSE, <<>>)
        /\ UNCHANGED <<algorithm_name, max_floor, num_elevators, metrics, elevators, floors,
                       performance_stats, current_tick, error, probe, host>>

\* on_elevator_idle(elevator) for car id, whose proxy reads e
OnIdle(id, e) ==
    /\ Running
    /\ \E claim \in PendingClaims(e, pending_requests) :
          LET claimed == claim # NoClaim
              targets == IF claimed THEN Append(elevator_targets[id], claim.floor)
                         ELSE elevator_targets[id]
              \* _update_elevator_targets inside _process_pending_requests
              first == IF claimed
                       THEN UpdateElevatorTargets(algorithm_name, e, targets, strategy_weights,
                                                  request_history, max_floor, num_elevators)
                       ELSE <<>>
              history == IF claimed
                         THEN UpdateHistory(algorithm_name, e, targets, request_history)
                         ELSE request_history
              \* _update_elevator_targets at the end of on_elevator_idle
              second == UpdateElevatorTargets(algorithm_name, e, targets, strategy_weights,
                                              history, max_floor, num_elevators)
              commands == first \o second
          IN  /\ HistoryFits(UpdateHistory(algorithm_name, e, targets, history))
              /\ elevator_targets' = [elevator_targets EXCEPT ![id] = targets]
              /\ pending_requests' =
                     IF claimed
                     THEN [pending_requests EXCEPT ![claim.direction] = @ \ {claim.floor}]
                     ELSE pending_requests
              /\ request_history' = UpdateHistory(algorithm_name, e, targets, history)
              /\ ev' = Event("idle", id, claim.floor, claim.direction, e, claimed,
                             [i \in 1..Len(commands) |-> <<id, commands[i]>>])
    /\ UNCHANGED <<algorithm_name, max_floor, num_elevators, metrics, strategy_weights,
                   elevators, floors, elevator_wait_times, all_passengers,
                   performance_stats, current_tick, waiting, error, probe, host>>

\* on_elevator_stopped taking the floor out of every car's queue
OnStoppedEveryCar(id, floor) ==
    /\ Running
    /\ elevator_targets' =
           [c \in DOMAIN elevator_targets |->
               IF Contains(elevator_targets[c], floor)
               THEN RemoveFirst(elevator_targets[c], floor) ELSE elevator_targets[c]]
    /\ ev' = Event("stopped", id, floor, "none", NoCar, FALSE, <<>>)
    /\ UNCHANGED <<algorithm_name, max_floor, num_elevators, metrics, strategy_weights,
                   request_history, elevators, floors, pending_requests,
                   elevator_wait_times, all_passengers, performance_stats, current_tick,
                   waiting, error, probe, host>>

\* on_elevator_stopped(elevator, floor) for car id
OnStopped(id, floor) ==
    /\ Running
    /\ elevator_targets' =
           [elevator_targets EXCEPT ![id] =
               IF Contains(@, floor) THEN RemoveFirst(@, floor) ELSE @]
    /\ ev' = Event("stopped", id, floor, "none", NoCar, FALSE, <<>>)
    /\ UNCHANGED <<algorithm_name, max_floor, num_elevators, metrics, strategy_weights,
                   request_history, elevators, floors, pending_requests,
                   elevator_wait_times, all_passengers, performance_stats, current_tick,
                   waiting, error, probe, host>>

\* Variant of the wait time below: the tick of boarding, the tick of the call
\* ignored
WaitTimeSinceStart(tick, call_tick) == tick

\* wait_time = self.current_tick - self.elevator_wait_times[elevator.id][passenger_id]
WaitTime(tick, call_tick) == tick - call_tick

\* on_passenger_board(elevator, passenger): waiting passenger p, bound for
\* destination, boards car id, whose proxy reads e
OnBoard(id, e, p, destination) ==
    LET timed == p \in DOMAIN elevator_wait_times[id]
        wait_time == IF timed THEN WaitTime(current_tick, elevator_wait_times[id][p]) ELSE 0
        \* self.algorithm.metrics[elevator.id] on a table keyed at construction
        keyError == timed /\ id \notin DOMAIN metrics
        targets == AppendIfAbsent(elevator_targets[id], destination)
        commands == UpdateElevatorTargets(algorithm_name, e, targets, strategy_weights,
                                          request_history, max_floor, num_elevators)
    IN  /\ Running
        /\ p \in waiting
        /\ IF keyError THEN TRUE
           ELSE HistoryFits(UpdateHistory(algorithm_name, e, targets, request_history))
        /\ waiting' = waiting \ {p}
        /\ performance_stats' =
               IF timed
               THEN [total_wait_time |-> performance_stats.total_wait_time + wait_time,
                     total_passengers |-> performance_stats.total_passengers + 1]
               ELSE performance_stats
        /\ IF keyError
           THEN /\ error' = "KeyError"
                /\ ev' = Event("board", id, destination, "none", NoCar, FALSE, <<>>)
                /\ UNCHANGED <<metrics, elevator_targets, request_history>>
           ELSE /\ error' = error
                /\ metrics' =
                       IF timed
                       THEN [metrics EXCEPT ![id] =
                               [total_wait_time |-> @.total_wait_time + wait_time,
                                passengers_served |-> @.passengers_served + 1]]
                       ELSE metrics
                /\ elevator_targets' = [elevator_targets EXCEPT ![id] = targets]
                /\ request_history' = UpdateHistory(algorithm_name, e, targets, request_history)
                /\ ev' = Event("board", id, destination, "none", NoCar,
                               ~Contains(elevator_targets[id], destination),
                               [i \in 1..Len(commands) |-> <<id, commands[i]>>])
        /\ UNCHANGED <<algorithm_name, max_floor, num_elevators, strategy_weights, elevators,
                       floors, pending_requests, elevator_wait_times, all_passengers,
                       current_tick, probe, host>>

\* on_passenger_alight taking the head of the queue, whatever floor it is
OnAlightHead(id, destination) ==
    /\ Running
    /\ elevator_targets' =
           [elevator_targets EXCEPT ![id] = IF @ # <<>> THEN Tail(@) ELSE @]
    /\ ev' = Event("alight", id, destination, "none", NoCar, FALSE, <<>>)
    /\ UNCHANGED <<algorithm_name, max_floor, num_elevators, metrics, strategy_weights,
                   request_history, elevators, floors, pending_requests,
                   elevator_wait_times, all_passengers, performance_stats, current_tick,
                   waiting, error, probe, host>>

\* on_passenger_alight(elevator, passenger, floor): a passenger bound for
\* destination leaves car id
OnAlight(id, destination) ==
    /\ Running
    /\ elevator_targets' =
           [elevator_targets EXCEPT ![id] =
               IF Contains(@, destination) THEN RemoveFirst(@, destination) ELSE @]
    /\ ev' = Event("alight", id, destination, "none", NoCar, FALSE, <<>>)
    /\ UNCHANGED <<algorithm_name, max_floor, num_elevators, metrics, strategy_weights,
                   request_history, elevators, floors, pending_requests,
                   elevator_wait_times, all_passengers, performance_stats, current_tick,
                   waiting, error, probe, host>>

\* on_elevator_passing_floor(elevator, floor, direction): prints when debug
\* is set, nothing else
OnPassing(id, floor, direction) ==
    /\ Running
    /\ ev' = Event("passing", id, floor, direction, NoCar, FALSE, <<>>)
    /\ UNCHANGED <<algorithm_name, max_floor, num_elevators, metrics, strategy_weights,
                   request_history, elevators, floors, elevator_targets, pending_requests,
                   elevator_wait_times, all_passengers, performance_stats, current_tick,
                   waiting, error, probe, host>>

\* on_elevator_approaching(elevator, floor, direction): prints when debug is
\* set, nothing else
OnApproaching(id, floor, direction) ==
    /\ Running
    /\ ev' = Event("approaching", id, floor, direction, NoCar, FALSE, <<>>)
    /\ UNCHANGED <<algorithm_name, max_floor, num_elevators, metrics, strategy_weights,
                   request_history, elevators, floors, elevator_targets, pending_requests,
                   elevator_wait_times, all_passengers, performance_stats, current_tick,
                   waiting, error, probe, host>>

\* The handler returns to the host's event loop.
Return ==
    /\ ev # NoEvent
    /\ error = "none"
    /\ ev' = NoEvent
    /\ UNCHANGED <<algorithm_name, max_floor, num_elevators, metrics, strategy_weights,
                   request_history, elevators, floors, elevator_targets, pending_requests,
                   elevator_wait_times, all_passengers, performance_stats, current_tick,
                   waiting, error, probe, host>>

Next ==
    \/ Ready /\ \E n \in 1..MaxCars : OnInit(n, NumFloors)
    \/ Ready /\ \E p \in 1..MaxPassengers, origin \in FloorNumbers,
                   destination \in FloorNumbers : OnCall(p, origin, destination)
    \/ Ready /\ \E id \in RosterIds, e \in CarStates(floors) : OnIdle(id, e)
    \/ Ready /\ \E id \in RosterIds, floor \in FloorNumbers : OnStopped(id, floor)
    \/ Ready /\ \E id \in RosterIds, e \in CarStates(floors), p \in waiting,
                   destination \in FloorNumbers : OnBoard(id, e, p, destination)
    \/ Ready /\ \E id \in RosterIds, destination \in FloorNumbers :
                   OnAlight(id, destination)
    \/ Ready /\ \E id \in RosterIds, floor \in FloorNumbers, direction \in CallDirections :
                   OnPassing(id, floor, direction)
    \/ Ready /\ \E id \in RosterIds, floor \in FloorNumbers, direction \in CallDirections :
                   OnApproaching(id, floor, direction)
    \/ Return

Spec == Init /\ [][Next]_vars

(* ----------------- the dispatch helpers called directly --------------- *)
\* _can_elevator_pickup(elevator, floor, direction) for every car, floor and
\* direction
PickupProbes ==
    {[NoProbe EXCEPT !.op = "pickup", !.reads = <<e>>, !.floor = floor,
                     !.direction = direction] :
        e \in CarStates(NumFloors), floor \in 0..(NumFloors - 1), direction \in Direction}

\* _assign_passenger_to_elevator(passenger, floor, direction) for every roster
\* of up to MaxCars cars, read once each
AssignProbes ==
    {[NoProbe EXCEPT !.op = "assign", !.reads = reads, !.floor = floor,
                     !.direction = direction] :
        reads \in UNION {[1..n -> CarStates(NumFloors)] : n \in 1..MaxCars},
        floor \in 0..(NumFloors - 1), direction \in CallDirections}

InitProbe == Constructed /\ probe \in PickupProbes \cup AssignProbes

AskPickup ==
    /\ probe.op = "pickup"
    /\ ~probe.asked
    /\ probe' = [probe EXCEPT !.asked = TRUE,
                              !.accept = CanElevatorPickup(probe.reads[1], probe.floor,
                                                           probe.direction)]
    /\ UNCHANGED <<algorithm_name, max_floor, num_elevators, metrics, strategy_weights,
                   request_history, elevators, floors, elevator_targets, pending_requests,
                   elevator_wait_times, all_passengers, performance_stats, current_tick,
                   waiting, error, ev, host>>

AskAssign ==
    /\ Running
    /\ probe.op = "assign"
    /\ ~probe.asked
    /\ Len(probe.reads) = Len(elevators)
    /\ LET assigned == AssignPassengerToElevator(elevators, probe.reads, probe.floor,
                           probe.direction, algorithm_name, num_elevators, max_floor,
                           strategy_weights)
       IN  /\ probe' = [probe EXCEPT !.asked = TRUE,
                                     !.accept = assigned.best_elevator # NoElevator,
                                     !.best_elevator = assigned.best_elevator]
           /\ strategy_weights' = assigned.weights
    /\ UNCHANGED <<algorithm_name, max_floor, num_elevators, metrics, request_history,
                   elevators, floors, elevator_targets, pending_requests,
                   elevator_wait_times, all_passengers, performance_stats, current_tick,
                   waiting, error, ev, host>>

NextProbe ==
    \/ Ready /\ \E n \in 1..MaxCars : OnInit(n, NumFloors)
    \/ Return
    \/ AskPickup
    \/ AskAssign

SpecProbe == InitProbe /\ [][NextProbe]_vars

(* --------------------- the cost policy called directly ---------------- *)
\* calculate_cost(elevator, target_floor, direction) for one car state, floor
\* and direction, asked again and again
CostProbes ==
    {[NoProbe EXCEPT !.op = "cost", !.reads = <<e>>, !.floor = floor,
                     !.direction = direction] :
        e \in CarStates(NumFloors), floor \in 0..(NumFloors - 1),
        direction \in CallDirections}

\* The target queues handed to handle_idle_elevator: up to two floors
TargetQueues == UNION {[1..n -> 0..(NumFloors - 1)] : n \in 0..2}

\* handle_idle_elevator(elevator, targets) for one car state and queue
ChooseProbes ==
    {[NoProbe EXCEPT !.op = "choose", !.reads = <<e>>, !.targets = targets] :
        e \in CarStates(NumFloors), targets \in TargetQueues}

InitPolicy == Constructed /\ probe \in CostProbes \cup ChooseProbes

\* calculate_cost on the probe's arguments; the value is kept in the probe
AskCost ==
    /\ Running
    /\ probe.op = "cost"
    /\ probe' = [probe EXCEPT !.asked = TRUE,
                              !.cost = CalculateCost(algorithm_name, probe.reads[1],
                                           probe.floor, probe.direction, num_elevators)]
    /\ strategy_weights' = CostWeights(algorithm_name, strategy_weights, probe.reads[1],
                                       probe.floor, max_floor)
    /\ UNCHANGED <<algorithm_name, max_floor, num_elevators, metrics, request_history,
                   elevators, floors, elevator_targets, pending_requests,
                   elevator_wait_times, all_passengers, performance_stats, current_tick,
                   waiting, error, ev, host>>

\* handle_idle_elevator on the probe's arguments; the go_to_floor calls are
\* kept in the probe
AskChoose ==
    /\ Running
    /\ probe.op = "choose"
    /\ HistoryFits(HandleIdleHistory(algorithm_name, probe.reads[1], probe.targets,
                                     request_history))
    /\ probe' = [probe EXCEPT !.asked = TRUE, !.fresh = TRUE,
                              !.commands = HandleIdleElevator(algorithm_name, probe.reads[1],
                                               probe.targets, strategy_weights,
                                               request_history, max_floor, num_elevators)]
    /\ request_history' = HandleIdleHistory(algorithm_name, probe.reads[1], probe.targets,
                                            request_history)
    /\ UNCHANGED <<algorithm_name, max_floor, num_elevators, metrics, strategy_weights,
                   elevators, floors, elevator_targets, pending_requests,
                   elevator_wait_times, all_passengers, performance_stats, current_tick,
                   waiting, error, ev, host>>

\* Any other calculate_cost call the engine makes in between
CalculateCostCall(e, target_floor) ==
    /\ Running
    /\ probe' = [probe EXCEPT !.fresh = FALSE]
    /\ strategy_weights' = CostWeights(algorithm_name, strategy_weights, e, target_floor,
                                       max_floor)
    /\ UNCHANGED <<algorithm_name, max_floor, num_elevators, metrics, request_history,
                   elevators, floors, elevator_targets, pending_requests,
                   elevator_wait_times, all_passengers, performance_stats, current_tick,
                   waiting, error, ev, host>>

\* Any other handle_idle_elevator call the engine makes in between
HandleIdleCall(e, targets) ==
    /\ Running
    /\ HistoryFits(HandleIdleHistory(algorithm_name, e, targets, request_history))
    /\ probe' = [probe EXCEPT !.fresh = FALSE]
    /\ request_history' = HandleIdleHistory(algorithm_name, e, targets, request_history)
    /\ UNCHANGED <<algorithm_name, max_floor, num_elevators, metrics, strategy_weights,
                   elevators, floors, elevator_targets, pending_requests,
                   elevator_wait_times, all_passengers, performance_stats, current_tick,
                   waiting, error, ev, host>>

NextPolicy ==
    \/ Ready /\ \E n \in 1..MaxCars : OnInit(n, NumFloors)
    \/ Return
    \/ AskCost
    \/ AskChoose
    \/ \E e \in CarStates(floors), target_floor \in FloorNumbers :
          CalculateCostCall(e, target_floor)
    \/ \E e \in CarStates(floors), targets \in TargetQueues : HandleIdleCall(e, targets)

SpecPolicy == InitPolicy /\ [][NextPolicy]_vars

(* ------------------------- the engine's clock ------------------------- *)
\* self.current_tick, kept by the host between two events, moves on by one
Tick ==
    /\ Running
    /\ current_tick < MaxTick
    /\ current_tick' = current_tick + 1
    /\ UNCHANGED <<algorithm_name, max_floor, num_elevators, metrics, strategy_weights,
                   request_history, elevators, floors, elevator_targets, pending_requests,
                   elevator_wait_times, all_passengers, performance_stats, waiting, error,
                   ev, probe, host>>

NextTick ==
    \/ Ready /\ \E n \in 1..MaxCars : OnInit(n, NumFloors)
    \/ Ready /\ \E p \in 1..MaxPassengers, origin \in FloorNumbers,
                   destination \in FloorNumbers : OnCall(p, origin, destination)
    \/ Ready /\ \E id \in RosterIds, e \in CarStates(floors), p \in waiting,
                   destination \in FloorNumbers : OnBoard(id, e, p, destination)
    \/ Tick
    \/ Return

\* The controller is constructed with the default policy, direction_aware, or
\* with adaptive, the one policy that keeps state of its own.
TickPolicies == {"direction_aware", "adaptive"}

InitTick == Init /\ algorithm_name \in TickPolicies

SpecTick == InitTick /\ [][NextTick]_vars

(* ------------------------ the host in the loop ------------------------ *)
\* The host drives the cars as commanded and delivers the events of a car in
\* this order: it stops at the commanded floor, its passengers bound for the
\* floor alight, the passengers waiting there board, and with no command left
\* it turns idle.

\* elevator.current_floor, elevator.target_floor_direction and
\* len(elevator.passengers) as the proxy of car id shows them
ProxyElevator(id) ==
    LET c == host.cars[id]
    IN  [current_floor |-> c.current_floor,
         target_floor_direction |->
             IF c.target = NoFloor \/ c.target = c.current_floor THEN STOPPED
             ELSE IF c.target > c.current_floor THEN UP ELSE DOWN,
         passengers |-> c.passengers]

\* The passengers in car id bound for the floor it stands at
Alighting(id) ==
    {p \in DOMAIN host.people :
        /\ host.people[p].status = "car"
        /\ host.people[p].car = id
        /\ host.people[p].destination = host.cars[id].current_floor}

\* The passengers waiting at the floor car id stands at, while it has room
Boarding(id) ==
    {p \in DOMAIN host.people :
        /\ host.people[p].status = "floor"
        /\ host.people[p].origin = host.cars[id].current_floor
        /\ host.cars[id].passengers < Capacity}

\* elevator.go_to_floor(floor) of each command, in order: the last one counts
GoToFloor(cars, commands) ==
    [id \in DOMAIN cars |->
        LET Mine(c) == c[1] = id
            mine == SelectSeq(commands, Mine)
        IN  IF mine = <<>> THEN cars[id]
            ELSE [cars[id] EXCEPT !.target = mine[Len(mine)][2]]]

\* The host after the handler of event e has returned; a passenger who called
\* is bound for destination
AfterEvent(e, destination) ==
    CASE e.kind = "init" ->
           [cars |-> GoToFloor([id \in Range(elevators) |->
                                   [current_floor |-> 0, target |-> NoFloor,
                                    passengers |-> 0, phase |-> "run"]], e.commands),
            people |-> <<>>]
      [] e.kind = "call" ->
           [cars |-> GoToFloor(host.cars, e.commands),
            people |-> Append(host.people,
                              [status |-> "floor", origin |-> e.floor,
                               destination |-> destination, car |-> NoElevator])]
      [] e.kind = "stopped" ->
           [host EXCEPT !.cars[e.elevator].phase = "doors",
                        !.cars[e.elevator].target = NoFloor]
      [] e.kind = "alight" ->
           LET p == CHOOSE q \in Alighting(e.elevator) :
                       \A r \in Alighting(e.elevator) : q <= r
           IN  [host EXCEPT !.people[p].status = "done",
                            !.cars[e.elevator].passengers = @ - 1]
      [] e.kind = "board" ->
           LET p == CHOOSE q \in DOMAIN host.people :
                       host.people[q].status = "floor" /\ q \notin waiting
               boarded == [host.cars EXCEPT ![e.elevator].passengers = @ + 1]
           IN  [cars |-> GoToFloor(boarded, e.commands),
                people |-> [host.people EXCEPT ![p].status = "car",
                                               ![p].car = e.elevator]]
      [] e.kind = "idle" ->
           [cars |-> GoToFloor([host.cars EXCEPT ![e.elevator].phase = "run"], e.commands),
            people |-> host.people]
      [] OTHER -> host

\* The handler returns and the host takes up its commands.
LiveReturn ==
    /\ ev # NoEvent
    /\ error = "none"
    /\ ev' = NoEvent
    /\ \E destination \in FloorNumbers :
          /\ ev.kind = "call" =>
                /\ destination # ev.floor
                /\ (destination > ev.floor) <=> (ev.direction = UP)
          /\ host' = AfterEvent(ev, destination)
    /\ UNCHANGED <<algorithm_name, max_floor, num_elevators, metrics, strategy_weights,
                   request_history, elevators, floors, elevator_targets, pending_requests,
                   elevator_wait_times, all_passengers, performance_stats, current_tick,
                   waiting, error, probe>>

\* A car under way comes one floor nearer to its commanded floor.
Move(id) ==
    /\ Ready
    /\ host.cars[id].phase = "run"
    /\ host.cars[id].target # NoFloor
    /\ host.cars[id].target # host.cars[id].current_floor
    /\ host' = [host EXCEPT !.cars[id].current_floor =
                    IF host.cars[id].target > @ THEN @ + 1 ELSE @ - 1]
    /\ UNCHANGED <<algorithm_name, max_floor, num_elevators, metrics, strategy_weights,
                   request_history, elevators, floors, elevator_targets, pending_requests,
                   elevator_wait_times, all_passengers, performance_stats, current_tick,
                   waiting, error, ev, probe>>

\* A car commanded while its doors were open leaves.
Depart(id) ==
    /\ Ready
    /\ host.cars[id].phase = "doors"
    /\ Alighting(id) = {}
    /\ Boarding(id) = {}
    /\ host.cars[id].target # NoFloor
    /\ host' = [host EXCEPT !.cars[id].phase = "run"]
    /\ UNCHANGED <<algorithm_name, max_floor, num_elevators, metrics, strategy_weights,
                   request_history, elevators, floors, elevator_targets, pending_requests,
                   elevator_wait_times, all_passengers, performance_stats, current_tick,
                   waiting, error, ev, probe>>

\* on_passenger_call while the cars are where the host has them
LiveCall(p, origin, destination) ==
    LET direction == IF destination > origin THEN UP ELSE DOWN
        assigned == AssignPassengerToElevator(elevators,
                        [i \in 1..Len(elevators) |-> ProxyElevator(elevators[i])],
                        origin, direction, algorithm_name, num_elevators, max_floor,
                        strategy_weights)
    IN  /\ host # NoHost
        /\ OnCall(p, origin, destination)
        /\ strategy_weights' = assigned.weights
        /\ ev'.elevator = assigned.best_elevator
        /\ ev'.car = assigned.car

\* on_elevator_stopped when car id is at its commanded floor
LiveStopped(id) ==
    /\ host # NoHost
    /\ host.cars[id].phase = "run"
    /\ host.cars[id].target = host.cars[id].current_floor
    /\ OnStopped(id, host.cars[id].current_floor)

\* on_passenger_alight for a passenger of car id bound for the floor it is at
LiveAlight(id) ==
    /\ host # NoHost
    /\ host.cars[id].phase = "doors"
    /\ Alighting(id) # {}
    /\ OnAlight(id, host.cars[id].current_floor)

\* on_passenger_board for a passenger waiting at the floor car id is at
LiveBoard(id, p) ==
    /\ host # NoHost
    /\ host.cars[id].phase = "doors"
    /\ Alighting(id) = {}
    /\ p \in Boarding(id)
    /\ OnBoard(id, ProxyElevator(id), p, host.people[p].destination)

\* on_elevator_idle for car id: the doors are done and no command is left
LiveIdle(id) ==
    /\ host # NoHost
    /\ host.cars[id].phase = "doors"
    /\ Alighting(id) = {}
    /\ Boarding(id) = {}
    /\ host.cars[id].target = NoFloor
    /\ OnIdle(id, ProxyElevator(id))

\* What the host does of its own accord once on_init has run; the calls are
\* the passengers' doing
LiveEvents ==
    \/ Ready /\ \E id \in RosterIds : LiveStopped(id)
    \/ Ready /\ \E id \in RosterIds : LiveAlight(id)
    \/ Ready /\ \E id \in RosterIds, p \in waiting : LiveBoard(id, p)
    \/ Ready /\ \E id \in RosterIds : LiveIdle(id)
    \/ \E id \in RosterIds : Move(id)
    \/ \E id \in RosterIds : Depart(id)
    \/ LiveReturn

NextLive ==
    \/ Ready /\ \E n \in 1..MaxCars : OnInit(n, NumFloors)
    \/ Ready /\ \E p \in 1..MaxPassengers, origin \in FloorNumbers,
                   destination \in FloorNumbers : LiveCall(p, origin, destination)
    \/ Ready /\ \E id \in RosterIds : LiveStopped(id)
    \/ Ready /\ \E id \in RosterIds : LiveAlight(id)
    \/ Ready /\ \E id \in RosterIds, p \in waiting : LiveBoard(id, p)
    \/ Ready /\ \E id \in RosterIds : LiveIdle(id)
    \/ \E id \in RosterIds : Move(id)
    \/ \E id \in RosterIds : Depart(id)
    \/ LiveReturn

\* The host keeps going: it runs on_init, and then takes a step of its own
\* whenever one stays possible.
SpecLive ==
    /\ Init
    /\ [][NextLive]_vars
    /\ WF_vars(Ready /\ \E n \in 1..MaxCars : OnInit(n, NumFloors))
    /\ WF_vars(LiveEvents)

\* The same loop for a roster larger than the default and a single passenger
NextLiveLarge ==
    \/ Ready /\ OnInit(DefaultNumElevators + 1, NumFloors)
    \/ Ready /\ \E origin \in FloorNumbers, destination \in FloorNumbers :
                   LiveCall(1, origin, destination)
    \/ Ready /\ \E id \in RosterIds : LiveStopped(id)
    \/ Ready /\ \E id \in RosterIds : LiveAlight(id)
    \/ Ready /\ \E id \in RosterIds, p \in waiting : LiveBoard(id, p)
    \/ Ready /\ \E id \in RosterIds : LiveIdle(id)
    \/ \E id \in RosterIds : Move(id)
    \/ \E id \in RosterIds : Depart(id)
    \/ LiveReturn

SpecLiveLarge ==
    /\ Init
    /\ [][NextLiveLarge]_vars
    /\ WF_vars(Ready /\ OnInit(DefaultNumElevators + 1, NumFloors))
    /\ WF_vars(LiveEvents)

\* The same loop for one car in a building of TallFloors floors, where a
\* moving car can have floors at some distance on both sides.  The calls, as
\* origin and destination:
TallCalls == {<<1, 0>>, <<4, 3>>, <<5, 6>>}

NextLiveTall ==
    \/ Ready /\ OnInit(1, TallFloors)
    \/ Ready /\ \E p \in 1..Cardinality(TallCalls), call \in TallCalls :
                   LiveCall(p, call[1], call[2])
    \/ Ready /\ \E id \in RosterIds : LiveStopped(id)
    \/ Ready /\ \E id \in RosterIds : LiveAlight(id)
    \/ Ready /\ \E id \in RosterIds, p \in waiting : LiveBoard(id, p)
    \/ Ready /\ \E id \in RosterIds : LiveIdle(id)
    \/ \E id \in RosterIds : Move(id)
    \/ \E id \in RosterIds : Depart(id)
    \/ LiveReturn

SpecLiveTall ==
    /\ Init
    /\ [][NextLiveTall]_vars
    /\ WF_vars(Ready /\ OnInit(1, TallFloors))
    /\ WF_vars(LiveEvents)

(* ---------------------- buildings of any height ---------------------- *)
\* on_init for every roster of 1..MaxCars cars and every building of
\* 1..NumFloors floors, followed by calls and stops
NextBuilding ==
    \/ Ready /\ \E n \in 1..MaxCars, nf \in 1..NumFloors : OnInit(n, nf)
    \/ Ready /\ \E p \in 1..MaxPassengers, origin \in FloorNumbers,
                   destination \in FloorNumbers : OnCall(p, origin, destination)
    \/ Ready /\ \E id \in RosterIds, floor \in FloorNumbers : OnStopped(id, floor)
    \/ Return

SpecBuilding == Init /\ [][NextBuilding]_vars

(* ------------------ a roster larger than the default ------------------ *)
LargeRoster == DefaultNumElevators + 1

NextLarge ==
    \/ Ready /\ OnInit(LargeRoster, NumFloors)
    \/ Ready /\ \E p \in 1..MaxPassengers, origin \in FloorNumbers,
                   destination \in FloorNumbers : OnCall(p, origin, destination)
    \/ Ready /\ \E id \in RosterIds, e \in CarStates(floors), p \in waiting,
                   destination \in FloorNumbers : OnBoard(id, e, p, destination)
    \/ Return

SpecLarge == Init /\ [][NextLarge]_vars

(* ------------------------------ properties ---------------------------- *)
\* C1: every car's target queue holds each floor at most once, in every
\* reachable state.
C1_NoDuplicateTargets ==
    \A id \in DOMAIN elevator_targets :
        \A i, j \in 1..Len(elevator_targets[id]) :
            i # j => elevator_targets[id][i] # elevator_targets[id][j]

\* C2: no handler ends in a hard error, whatever the roster size.
C2_NoHardError == error = "none"

\* C3: when on_passenger_board returns, the passenger's destination is in the
\* boarded car's target queue and a movement command went to that car in the
\* same event.
C3_BoardQueuesAndCommands ==
    ev.kind = "board" =>
        /\ Contains(elevator_targets[ev.elevator], ev.floor)
        /\ \E i \in 1..Len(ev.commands) : ev.commands[i][1] = ev.elevator

\* C4: _can_elevator_pickup answers as the reference predicate does: no when
\* the car is full; otherwise yes when the car is STOPPED; otherwise yes
\* exactly when the car heads in the requested direction and has not passed
\* the floor (UP: current_floor <= floor, DOWN: current_floor >= floor).
C4_CanAcceptIsReference ==
    (probe.op = "pickup" /\ probe.asked) =>
        LET e == probe.reads[1]
            reference ==
                /\ e.passengers < Capacity
                /\ \/ e.target_floor_direction = STOPPED
                   \/ /\ e.target_floor_direction = probe.direction
                      /\ \/ probe.direction = UP /\ e.current_floor <= probe.floor
                         \/ probe.direction = DOWN /\ e.current_floor >= probe.floor
        IN  probe.accept <=> reference

\* C4 happens: a car heading up, with room, is asked about an UP call above it
\* and accepts.
C4_Witness ==
    /\ probe.op = "pickup"
    /\ probe.asked
    /\ probe.accept
    /\ probe.direction = UP
    /\ probe.reads[1].target_floor_direction = UP
    /\ probe.reads[1].passengers > 0
    /\ probe.reads[1].current_floor < probe.floor

\* C5: in a call or idle event, a car heading UP never has a pickup floor
\* below its current floor appended to its queue, and a car heading DOWN never
\* one above it.
C5_NoReversal ==
    (ev.kind \in {"call", "idle"} /\ ev.appended) =>
        /\ Contains(elevator_targets[ev.elevator], ev.floor)
        /\ ev.car.target_floor_direction = UP => ev.floor >= ev.car.current_floor
        /\ ev.car.target_floor_direction = DOWN => ev.floor <= ev.car.current_floor

\* C5 happens: an idle event in which a car heading UP claims a backlog floor
\* above it.
C5_Witness ==
    /\ ev.kind = "idle"
    /\ ev.appended
    /\ ev.car.target_floor_direction = UP
    /\ ev.floor > ev.car.current_floor

\* C6: in a call or idle event, a car that is full (passengers >= capacity)
\* is never selected for the call and never claims a backlog floor, so no
\* pickup floor is appended to its queue.
C6_NoQueueingOntoFullCar ==
    (\/ ev.kind = "call" /\ ev.elevator # NoElevator
     \/ ev.kind = "idle" /\ ev.appended) =>
        ev.car.passengers < Capacity

\* C6 happens: a call is given to a car that is one passenger short of full.
C6_Witness ==
    /\ ev.kind = "call"
    /\ ev.elevator # NoElevator
    /\ ev.appended
    /\ ev.car.passengers = Capacity - 1

\* C7: _assign_passenger_to_elevator returns, among the cars that can pick the
\* call up, one of minimum cost, and of several such cars the first in roster
\* order; it returns no car only when no car can pick the call up.
C7_FirstCheapestEligible ==
    (probe.op = "assign" /\ probe.asked) =>
        LET Eligible(i) == CanElevatorPickup(probe.reads[i], probe.floor, probe.direction)
            Cost(i) == CalculateCost(algorithm_name, probe.reads[i], probe.floor,
                                     probe.direction, num_elevators)
            eligible == {i \in 1..Len(elevators) : Eligible(i)}
        IN  IF eligible = {} THEN probe.best_elevator = NoElevator
            ELSE \E k \in eligible :
                    /\ probe.best_elevator = elevators[k]
                    /\ \A j \in eligible : Cost(k) <= Cost(j)
                    /\ \A j \in eligible : j < k => Cost(j) > Cost(k)

\* C7 happens: two stopped, equally loaded cars on either side of the call,
\* at the same distance and so the same cost; the first of the roster is
\* returned.
C7_Witness ==
    /\ probe.op = "assign"
    /\ probe.asked
    /\ Len(probe.reads) = 2
    /\ probe.reads[1].target_floor_direction = STOPPED
    /\ probe.reads[2].target_floor_direction = STOPPED
    /\ probe.reads[1].passengers = probe.reads[2].passengers
    /\ probe.reads[1].passengers < Capacity
    /\ probe.reads[1].current_floor < probe.floor
    /\ probe.reads[2].current_floor > probe.floor
    /\ probe.floor - probe.reads[1].current_floor = probe.reads[2].current_floor - probe.floor
    /\ probe.best_elevator = elevators[1]

\* C8: every on_passenger_call leaves the origin floor either in the selected
\* car's queue or in the backlog of the call's direction, never adding to
\* both.  With no car selected the backlog set gains the floor (once), no
\* queue changes and no command is issued; with a car selected only that
\* car's queue may change, by the origin floor at most, and the backlog is
\* unchanged.
C8_CallQueuedOrPending ==
    [][(ev.kind = "none" /\ ev'.kind = "call") =>
          LET id == ev'.elevator
              origin == ev'.floor
              direction == ev'.direction
          IN  IF id = NoElevator
              THEN /\ origin \in pending_requests'[direction]
                   /\ pending_requests'[direction] = pending_requests[direction] \cup {origin}
                   /\ \A d \in CallDirections \ {direction} :
                         pending_requests'[d] = pending_requests[d]
                   /\ elevator_targets' = elevator_targets
                   /\ ev'.commands = <<>>
              ELSE /\ Contains(elevator_targets'[id], origin)
                   /\ pending_requests' = pending_requests
                   /\ \A other \in DOMAIN elevator_targets \ {id} :
                         elevator_targets'[other] = elevator_targets[other]
                   /\ elevator_targets'[id] \in
                         {elevator_targets[id], Append(elevator_targets[id], origin)}
                   /\ \A i \in 1..Len(ev'.commands) : ev'.commands[i][1] = id]_vars

\* C8 happens: a second call from the same floor in the same direction finds
\* no car and the backlog set still holds that floor once.
C8_Witness ==
    /\ ev.kind = "call"
    /\ ev.elevator = NoElevator
    /\ Len(all_passengers) = 2
    /\ elevator_targets = [id \in DOMAIN elevator_targets |-> <<>>]
    /\ pending_requests[ev.direction] = {ev.floor}
    /\ \A d \in CallDirections \ {ev.direction} : pending_requests[d] = {}

\* C9: whenever on_passenger_call selects a car, a movement command goes to
\* that car in the same event, also when the origin floor was already in its
\* queue.
C9_SelectedCarCommanded ==
    (ev.kind = "call" /\ ev.elevator # NoElevator) =>
        \E i \in 1..Len(ev.commands) : ev.commands[i][1] = ev.elevator

\* C10 as claimed: an idle event claims every backlog entry the idle car can
\* accept, whatever else the backlog holds.
C10_EveryAcceptableEntryClaimed ==
    [][(ev.kind = "none" /\ ev'.kind = "idle") =>
          \A d \in CallDirections : \A f \in pending_requests[d] :
              CanElevatorPickup(ev'.car, f, d) =>
                  /\ f \notin pending_requests'[d]
                  /\ Contains(elevator_targets'[ev'.elevator], f)]_vars

\* C10 amended: an idle event claims at most one backlog entry and only adds
\* none.  A claimed entry is a floor nearest to the car in its direction set,
\* the car can accept it, and it ends in the car's queue.  If the car can
\* accept every nearest floor of the UP set, an UP entry is claimed; if no UP
\* entry is claimed and the car can accept every nearest floor of the DOWN
\* set, a DOWN entry is claimed.  Every other entry stays in the backlog.
C10_NearestAcceptableEntryClaimed ==
    [][(ev.kind = "none" /\ ev'.kind = "idle") =>
          LET e == ev'.car
              Removed(d) == pending_requests[d] \ pending_requests'[d]
              Nearest(d) == NearestRequests(e, pending_requests[d])
              Acceptable(d) == /\ pending_requests[d] # {}
                               /\ \A f \in Nearest(d) : CanElevatorPickup(e, f, d)
          IN  /\ \A d \in CallDirections : pending_requests'[d] \subseteq pending_requests[d]
              /\ Cardinality(Removed(UP)) + Cardinality(Removed(DOWN)) <= 1
              /\ \A d \in CallDirections : \A f \in Removed(d) :
                    /\ f \in Nearest(d)
                    /\ CanElevatorPickup(e, f, d)
                    /\ Contains(elevator_targets'[ev'.elevator], f)
              /\ Acceptable(UP) => Removed(UP) # {}
              /\ (Removed(UP) = {} /\ Acceptable(DOWN)) => Removed(DOWN) # {}]_vars

\* C10 happens: an idle car claimed one backlog entry while another entry,
\* which it could accept as well, stays in the backlog.
C10_Witness ==
    /\ ev.kind = "idle"
    /\ ev.appended
    /\ \E d \in CallDirections : \E f \in pending_requests[d] :
          CanElevatorPickup(ev.car, f, d)

\* C11: backlog entries leave the backlog only in an idle event, at most one
\* per event.  The entry an idle event removes is a floor of its direction set
\* nearest to the car, the car can accept it, a DOWN entry is removed only
\* when the UP set is empty or its examined nearest floor was not acceptable,
\* and the floor is in the idle car's queue when the event ends.  No other
\* step removes a backlog entry.
C11_BacklogLeavesOnlyByIdleClaim ==
    [][LET e == ev'.car
           Removed(d) == pending_requests[d] \ pending_requests'[d]
           NearestIn(f, d) ==
               \A g \in pending_requests[d] :
                   Abs(e.current_floor - f) <= Abs(e.current_floor - g)
       IN  IF ev.kind = "none" /\ ev'.kind = "idle"
           THEN /\ Cardinality(Removed(UP)) + Cardinality(Removed(DOWN)) <= 1
                /\ \A d \in CallDirections : \A f \in Removed(d) :
                      /\ NearestIn(f, d)
                      /\ CanElevatorPickup(e, f, d)
                      /\ Contains(elevator_targets'[ev'.elevator], f)
                      /\ ev'.appended /\ ev'.floor = f /\ ev'.direction = d
                /\ Removed(DOWN) # {} =>
                      \/ pending_requests[UP] = {}
                      \/ \E f \in pending_requests[UP] :
                            NearestIn(f, UP) /\ ~CanElevatorPickup(e, f, UP)
           ELSE \A d \in CallDirections : Removed(d) = {}]_vars

\* C11 happens: a stopped car at floor 0 goes idle while the backlog holds
\* only a DOWN call at floor 1; the backlog is now empty and the car's queue
\* holds 1.
C11_Witness ==
    /\ ev.kind = "idle"
    /\ ev.appended
    /\ ev.direction = DOWN
    /\ ev.floor = 1
    /\ ev.car.current_floor = 0
    /\ ev.car.target_floor_direction = STOPPED
    /\ pending_requests = [d \in CallDirections |-> {}]
    /\ elevator_targets[ev.elevator] = <<1>>

\* C12 as claimed: whenever some car has spare capacity,
\* _assign_passenger_to_elevator has a candidate and returns a car, also when
\* every such car heads in the direction opposite to the call.
C12_SpareCapacityGivesCandidate ==
    (probe.op = "assign" /\ probe.asked) =>
        ((\E i \in 1..Len(probe.reads) : probe.reads[i].passengers < Capacity) =>
            probe.best_elevator # NoElevator)

\* C12 amended: a moving car whose direction disagrees with the call is
\* never returned by _assign_passenger_to_elevator, with or without spare
\* capacity, and when every car with spare capacity is such a car no car is
\* returned.  Its cost is higher than that of the same car stopped, at any
\* distance above 0, under the distance-optimized, direction-aware and
\* adaptive policies and the same under the load-balanced policy.
C12_DisagreeingCarExcluded ==
    (probe.op = "assign" /\ probe.asked) =>
        LET Disagrees(i) ==
                /\ probe.reads[i].target_floor_direction # STOPPED
                /\ probe.reads[i].target_floor_direction # probe.direction
            Cost(e) == CalculateCost(algorithm_name, e, probe.floor, probe.direction,
                                     num_elevators)
            Stopped(e) == [e EXCEPT !.target_floor_direction = STOPPED]
        IN  /\ \A i \in 1..Len(probe.reads) :
                  Disagrees(i) =>
                      /\ probe.best_elevator # elevators[i]
                      /\ IF algorithm_name = "load_balanced"
                            \/ probe.reads[i].current_floor = probe.floor
                         THEN Cost(probe.reads[i]) = Cost(Stopped(probe.reads[i]))
                         ELSE Cost(probe.reads[i]) > Cost(Stopped(probe.reads[i]))
            /\ (\A i \in 1..Len(probe.reads) :
                   probe.reads[i].passengers < Capacity => Disagrees(i)) =>
                      probe.best_elevator = NoElevator

\* C12 happens: the only car with spare capacity is empty and heads away from
\* the call's direction; no car is returned.
C12_Witness ==
    /\ probe.op = "assign"
    /\ probe.asked
    /\ Len(probe.reads) = 2
    /\ probe.reads[1].passengers = 0
    /\ probe.reads[1].target_floor_direction # STOPPED
    /\ probe.reads[1].target_floor_direction # probe.direction
    /\ probe.reads[2].passengers = Capacity
    /\ probe.best_elevator = NoElevator

\* C13: after on_elevator_stopped(car, floor) the car's queue no longer
\* contains floor, and the remaining floors keep their order.
C13_StoppedFloorGone ==
    [][(ev.kind = "none" /\ ev'.kind = "stopped") =>
          LET id == ev'.elevator
              Other(f) == f # ev'.floor
          IN  /\ ~Contains(elevator_targets'[id], ev'.floor)
              /\ elevator_targets'[id] = SelectSeq(elevator_targets[id], Other)]_vars

\* C14: once calculate_cost has been evaluated for a car state, target
\* floor and direction in a running controller, every later evaluation with
\* the same arguments returns the same value, under each of the four
\* policies and whatever calculate_cost and handle_idle_elevator calls were
\* made in between.
C14_CostDeterminism ==
    (probe.op = "cost" /\ probe.asked) =>
        probe.cost = CalculateCost(algorithm_name, probe.reads[1], probe.floor,
                                   probe.direction, num_elevators)

\* C14 happens: under the adaptive policy the cost was evaluated, and calls
\* made since have changed the strategy weights and the request history.
C14_Witness ==
    /\ algorithm_name = "adaptive"
    /\ probe.op = "cost"
    /\ probe.asked
    /\ probe.cost > 0
    /\ strategy_weights = LongDistanceWeights
    /\ request_history # <<>>

\* C15: a stopped, alight, passing or approaching event issues no
\* go_to_floor, leaves pending_requests as it was and leaves the queue of
\* every car but its own as it was; a passing or approaching event changes
\* no variable of the controller at all; and after on_init a go_to_floor is
\* issued only by a call, idle or board event.
C15_ObserversIssueNothing ==
    [][ev.kind = "none" =>
          /\ ev'.kind \in {"stopped", "alight", "passing", "approaching"} =>
                /\ ev'.commands = <<>>
                /\ pending_requests' = pending_requests
                /\ \A c \in DOMAIN elevator_targets :
                      c # ev'.elevator => elevator_targets'[c] = elevator_targets[c]
          /\ ev'.kind \in {"passing", "approaching"} =>
                UNCHANGED <<algorithm_name, max_floor, num_elevators, metrics,
                            strategy_weights, request_history, elevators, floors,
                            elevator_targets, pending_requests, elevator_wait_times,
                            all_passengers, performance_stats, current_tick, waiting,
                            error, probe, host>>
          /\ (ev'.commands # <<>> /\ ev'.kind # "init") =>
                ev'.kind \in {"call", "idle", "board"}]_vars

\* C15 happens: car 0 has stopped at a floor that is no longer in its own
\* queue while car 1 still holds that floor and a request is pending.
C15_Witness ==
    /\ ev.kind = "stopped"
    /\ ev.elevator = 0
    /\ DOMAIN elevator_targets = {0, 1}
    /\ ~Contains(elevator_targets[0], ev.floor)
    /\ Contains(elevator_targets[1], ev.floor)
    /\ pending_requests[UP] \cup pending_requests[DOWN] # {}

\* C16: when an idle event ends with the car's queue empty, the go_to_floor
\* calls it issued are those of the policy's handle_idle_elevator on the
\* empty queue (its park rule).
C16_EmptyQueueParks ==
    (ev.kind = "idle" /\ elevator_targets[ev.elevator] = <<>>) =>
        LET park == HandleIdleElevator(algorithm_name, ev.car, <<>>, strategy_weights,
                                       request_history, max_floor, num_elevators)
        IN  ev.commands = [i \in 1..Len(park) |-> <<ev.elevator, park[i]>>]

\* C17 as claimed: an occurrence of a floor leaves a car's queue only in a
\* stopped event of that car at that floor.
C17_RemovedOnlyByStopped ==
    [][\A c \in DOMAIN elevator_targets \cap DOMAIN elevator_targets', f \in FloorNumbers :
          LET Count(q) == Cardinality({i \in DOMAIN q : q[i] = f})
          IN  Count(elevator_targets'[c]) < Count(elevator_targets[c]) =>
                 /\ ev'.kind = "stopped"
                 /\ ev'.elevator = c
                 /\ ev'.floor = f]_vars

\* C17: an occurrence of a floor leaves a car's queue only in a stopped
\* event of that car at that floor or in an alight event of that car for a
\* passenger bound for that floor; the event removes the first occurrence
\* of that floor and nothing else.
C17_RemovedOnlyByStoppedOrAlight ==
    [][\A c \in DOMAIN elevator_targets \cap DOMAIN elevator_targets', f \in FloorNumbers :
          LET Count(q) == Cardinality({i \in DOMAIN q : q[i] = f})
          IN  Count(elevator_targets'[c]) < Count(elevator_targets[c]) =>
                 /\ ev'.kind \in {"stopped", "alight"}
                 /\ ev'.elevator = c
                 /\ ev'.floor = f
                 /\ elevator_targets'[c] = RemoveFirst(elevator_targets[c], f)]_vars

\* C17 happens: a passenger bound for a floor has left a car whose queue held
\* that floor twice, so one occurrence is gone and one is still queued.
C17_Witness ==
    /\ ev.kind = "alight"
    /\ Contains(elevator_targets[ev.elevator], ev.floor)

\* C18: right after handle_idle_elevator was called on a car state and a
\* queue, calling it again on the same car state and queue issues the same
\* go_to_floor calls and leaves request_history and strategy_weights as the
\* first call left them.
C18_ChooseIdempotent ==
    (probe.op = "choose" /\ probe.fresh) =>
        /\ HandleIdleElevator(algorithm_name, probe.reads[1], probe.targets,
                              strategy_weights, request_history, max_floor, num_elevators)
               = probe.commands
        /\ HandleIdleHistory(algorithm_name, probe.reads[1], probe.targets, request_history)
               = request_history

\* C19: a call event, which evaluates calculate_cost for every car, leaves
\* strategy_weights as they were, and leaves request_history as it was when
\* the event queued no floor.
C19_CostLeavesPolicyState ==
    [][(ev.kind = "none" /\ ev'.kind = "call") =>
          /\ strategy_weights' = strategy_weights
          /\ ~ev'.appended => request_history' = request_history]_vars

\* C20: a call event records the current tick for the new passenger under
\* every car, and no other step touches these records; a board event of a
\* passenger recorded with tick t1, on whatever car, adds current_tick - t1
\* to the total wait time and 1 to the number of passengers served; no other
\* step changes the two totals; and the total wait time is never negative.
C20_WaitTimeAccounting ==
    [][/\ (ev.kind = "none" /\ ev'.kind = "call") =>
             \A id \in DOMAIN elevator_wait_times :
                elevator_wait_times'[id] = Append(elevator_wait_times[id], current_tick)
       /\ ~(ev.kind = "none" /\ ev'.kind \in {"call", "init"}) =>
             elevator_wait_times' = elevator_wait_times
       /\ (ev.kind = "none" /\ ev'.kind = "board") =>
             \E p \in waiting \ waiting' :
                /\ waiting' = waiting \ {p}
                /\ \A id \in DOMAIN elevator_wait_times :
                      /\ performance_stats'.total_wait_time =
                             performance_stats.total_wait_time
                                 + (current_tick - elevator_wait_times[id][p])
                      /\ current_tick >= elevator_wait_times[id][p]
                /\ performance_stats'.total_passengers =
                       performance_stats.total_passengers + 1
       /\ ~(ev.kind = "none" /\ ev'.kind = "board") =>
             performance_stats' = performance_stats
       /\ performance_stats'.total_wait_time >= 0]_vars

\* C20 happens: with two cars, the passengers who called at ticks 0 and 1
\* have both boarded car 1 by tick 2, and the total wait time is 3.
C20_Witness ==
    /\ ev.kind = "board"
    /\ ev.elevator = 1
    /\ current_tick = 2
    /\ performance_stats.total_passengers = 2
    /\ performance_stats.total_wait_time = 3
    /\ DOMAIN elevator_targets = {0, 1}
    /\ elevator_wait_times[0] = <<0, 1>>

\* C21: on_init leaves an empty queue for every car and issues exactly one
\* go_to_floor per car, in roster order, to a floor of the building, that
\* is, one in 0 .. floors - 1.
C21_InitCommandsInRange ==
    ev.kind = "init" =>
        /\ \A id \in DOMAIN elevator_targets : elevator_targets[id] = <<>>
        /\ Len(ev.commands) = Len(elevators)
        /\ \A i \in 1..Len(ev.commands) :
              /\ ev.commands[i][1] = elevators[i]
              /\ ev.commands[i][2] \in 0..(floors - 1)

C23_QueuesDrain ==
    <>[](/\ \A id \in DOMAIN elevator_targets : elevator_targets[id] = <<>>
         /\ pending_requests[UP] = {}
         /\ pending_requests[DOWN] = {})

\* C24: a go_to_floor issued by a call event to a car reading direction UP
\* names no floor below the car's current floor, and one issued to a car
\* reading direction DOWN names no floor above it.
C24_NoReversalOnCall ==
    (ev.kind = "call" /\ ev.car # NoCar) =>
        \A i \in 1..Len(ev.commands) :
            /\ ev.car.target_floor_direction = UP =>
                  ev.commands[i][2] >= ev.car.current_floor
            /\ ev.car.target_floor_direction = DOWN =>
                  ev.commands[i][2] <= ev.car.current_floor

====
